---- MODULE Spec2Model ----
(***************************************************************************)
(* Model of the 401(k) portal's balance engine:                            *)
(*   src/src/utils/investmentUtils.js      validators and calculators      *)
(*   src/src/contexts/InvestmentContext.jsx the provider holding the state *)
(*   src/src/components/ui/MoveMoneyModal.jsx the select, preview, confirm *)
(*                                          workflow of the account page   *)
(*                                                                         *)
(* JavaScript values are modelled as records [t, n, d, s]:                 *)
(*   t = "fin"   a finite number, the exact rational n/d (d > 0, reduced)  *)
(*   t = "nan" | "inf" | "ninf"   the IEEE-754 NaN, +Infinity, -Infinity   *)
(*   t = "null" | "undefined"                                              *)
(*   t = "string" with s the sequence of its characters                    *)
(* Finite arithmetic is exact: the rounding of IEEE doubles is abstracted  *)
(* (every equality between computed amounts below is an equality of the    *)
(* exact values; in the running code it holds up to floating-point         *)
(* rounding).  The sign of zero is not modelled.                           *)
(***************************************************************************)
EXTENDS Integers, Sequences, FiniteSets, TLC

VARIABLES balances, funds, investmentData, error, call, step,
          rendered, modal, parsed

vars ==
  <<balances, funds, investmentData, error, call, step, rendered, modal,
    parsed>>

(* The state of the page around the provider's state: rendered is
   investments.balances as the functions of the last render captured it,
   modal the state of MoveMoneyModal with its isOpen prop, parsed tells that
   investments is the object parsed from localStorage and not yet the
   imported investmentData *)
page == <<rendered, modal, parsed>>

----------------------------------------------------------------------------
(* Bounds of the model *)

MaxUnits == 1
MaxNav == 2
MaxAmount == 2
MaxSteps == 2

----------------------------------------------------------------------------
(* JavaScript values *)

Abs(x) == IF x < 0 THEN -x ELSE x

RECURSIVE GCD(_, _)
GCD(a, b) == IF b = 0 THEN a ELSE GCD(b, a % b)

Reduced(sn, sd, g) == [t |-> "fin", n |-> sn \div g, d |-> sd \div g, s |-> <<>>]

(* The rational n/d in lowest terms with a positive denominator *)
Fin(n, d) ==
  IF d < 0 THEN Reduced(-n, -d, GCD(Abs(n), -d))
  ELSE Reduced(n, d, GCD(Abs(n), d))

Num(n) == [t |-> "fin", n |-> n, d |-> 1, s |-> <<>>]
Zero == Num(0)
NaN == [t |-> "nan", n |-> 0, d |-> 1, s |-> <<>>]
PosInf == [t |-> "inf", n |-> 0, d |-> 1, s |-> <<>>]
NegInf == [t |-> "ninf", n |-> 0, d |-> 1, s |-> <<>>]
Null == [t |-> "null", n |-> 0, d |-> 1, s |-> <<>>]
Undefined == [t |-> "undefined", n |-> 0, d |-> 1, s |-> <<>>]
Str(chars) == [t |-> "string", n |-> 0, d |-> 1, s |-> chars]

IsFinite(x) == x.t = "fin"
IsNaN(x) == x.t = "nan"

Sign(x) ==
  CASE x.t = "fin" -> (IF x.n > 0 THEN 1 ELSE IF x.n < 0 THEN -1 ELSE 0)
    [] x.t = "inf" -> 1
    [] x.t = "ninf" -> -1
    [] OTHER -> 0

InfOfSign(sg) == IF sg < 0 THEN NegInf ELSE PosInf

(* ToNumber of the values that reach an arithmetic operator in this code:
   null is 0, undefined is NaN, numbers are themselves. *)
ToNum(x) ==
  CASE x.t = "null" -> Zero
    [] x.t = "undefined" -> NaN
    [] x.t = "string" -> NaN
    [] OTHER -> x

(* The arithmetic operators on numbers; Neg, Add, Mul, Div, Gt and Le apply
   them to the ToNumber of their operands *)
NegNum(x) ==
  CASE x.t = "fin" -> Fin(-x.n, x.d)
    [] x.t = "inf" -> NegInf
    [] x.t = "ninf" -> PosInf
    [] OTHER -> NaN

Neg(x0) == NegNum(ToNum(x0))

AddNum(a, b) ==
  CASE IsNaN(a) \/ IsNaN(b) -> NaN
    [] IsFinite(a) /\ IsFinite(b) -> Fin(a.n * b.d + b.n * a.d, a.d * b.d)
    [] IsFinite(a) -> b
    [] IsFinite(b) -> a
    [] a.t = b.t -> a
    [] OTHER -> NaN

Add(a0, b0) == AddNum(ToNum(a0), ToNum(b0))

Sub(a, b) == Add(a, Neg(b))

MulNum(a, b) ==
  CASE IsNaN(a) \/ IsNaN(b) -> NaN
    [] IsFinite(a) /\ IsFinite(b) -> Fin(a.n * b.n, a.d * b.d)
    [] Sign(a) = 0 \/ Sign(b) = 0 -> NaN
    [] OTHER -> InfOfSign(Sign(a) * Sign(b))

Mul(a0, b0) == MulNum(ToNum(a0), ToNum(b0))

DivNum(a, b) ==
  CASE IsNaN(a) \/ IsNaN(b) -> NaN
    [] IsFinite(a) /\ IsFinite(b) ->
         IF b.n # 0 THEN Fin(a.n * b.d, a.d * b.n)
         ELSE IF a.n = 0 THEN NaN
         ELSE InfOfSign(Sign(a))
    [] IsFinite(a) -> Zero
    [] IsFinite(b) -> InfOfSign(Sign(a) * (IF Sign(b) < 0 THEN -1 ELSE 1))
    [] OTHER -> NaN

Div(a0, b0) == DivNum(ToNum(a0), ToNum(b0))

(* a > b and a <= b of JavaScript: false as soon as one side is NaN *)
GtNum(a, b) ==
  CASE IsNaN(a) \/ IsNaN(b) -> FALSE
    [] IsFinite(a) /\ IsFinite(b) -> a.n * b.d > b.n * a.d
    [] a.t = "inf" -> b.t # "inf"
    [] a.t = "ninf" -> FALSE
    [] b.t = "ninf" -> TRUE
    [] OTHER -> FALSE

Gt(a0, b0) == GtNum(ToNum(a0), ToNum(b0))

LeNum(a, b) == ~(IsNaN(a) \/ IsNaN(b)) /\ ~GtNum(a, b)

Le(a0, b0) == LeNum(ToNum(a0), ToNum(b0))

Lt(a, b) == Gt(b, a)

(* a === b *)
StrictEq(a, b) ==
  CASE a.t # b.t -> FALSE
    [] a.t = "nan" -> FALSE
    [] OTHER -> a = b

(* !x is true of undefined, null, '', 0 and NaN *)
Falsy(x) ==
  \/ x.t \in {"undefined", "null", "nan"}
  \/ x.t = "string" /\ x.s = <<>>
  \/ x.t = "fin" /\ x.n = 0

----------------------------------------------------------------------------
(* Strings: parseFloat, parseInt, Number.  A string is the sequence of its
   characters; exponents and hexadecimal prefixes are outside the alphabet
   used below. *)

Digits == <<"0", "1", "2", "3", "4", "5", "6", "7", "8", "9">>

IsDigit(c) == \E i \in 1..10 : Digits[i] = c

DigitVal(c) == (CHOOSE i \in 1..10 : Digits[i] = c) - 1

IsSpace(c) == c = " "

RECURSIVE TrimLeft(_)
TrimLeft(s) ==
  IF Len(s) > 0 /\ IsSpace(s[1]) THEN TrimLeft(Tail(s)) ELSE s

RECURSIVE TrimRight(_)
TrimRight(s) ==
  IF Len(s) > 0 /\ IsSpace(s[Len(s)])
  THEN TrimRight(SubSeq(s, 1, Len(s) - 1))
  ELSE s

RECURSIVE DigitPrefix(_)
DigitPrefix(s) ==
  IF Len(s) > 0 /\ IsDigit(s[1])
  THEN <<s[1]>> \o DigitPrefix(Tail(s))
  ELSE <<>>

RECURSIVE DigitsValue(_)
DigitsValue(ds) ==
  IF Len(ds) = 0 THEN 0
  ELSE 10 * DigitsValue(SubSeq(ds, 1, Len(ds) - 1)) + DigitVal(ds[Len(ds)])

RECURSIVE Pow10(_)
Pow10(k) == IF k = 0 THEN 1 ELSE 10 * Pow10(k - 1)

Drop(s, k) == SubSeq(s, k + 1, Len(s))

InfinityLit == <<"I", "n", "f", "i", "n", "i", "t", "y">>

HasPrefix(s, p) == Len(s) >= Len(p) /\ SubSeq(s, 1, Len(p)) = p

(* The parts of a string as a decimal literal: sign, integer digits,
   fraction digits and what follows them *)
HasSign(t) == Len(t) > 0 /\ t[1] \in {"-", "+"}

HasDot(r) == Len(r) > 0 /\ r[1] = "."

FractionDigits(r) == IF HasDot(r) THEN DigitPrefix(Tail(r)) ELSE <<>>

AfterFraction(r) ==
  IF HasDot(r) THEN Drop(r, 1 + Len(DigitPrefix(Tail(r)))) ELSE r

(* body is the string after its sign, ip its leading digits, r what follows
   them *)
PartsAfterDigits(neg, body, ip, r) ==
  [neg |-> neg, body |-> body, ip |-> ip, fp |-> FractionDigits(r),
   rest |-> AfterFraction(r)]

PartsOfDigits(neg, body, ip) ==
  PartsAfterDigits(neg, body, ip, Drop(body, Len(ip)))

PartsOfBody(neg, body) == PartsOfDigits(neg, body, DigitPrefix(body))

PartsOfTrimmed(t) ==
  PartsOfBody(HasSign(t) /\ t[1] = "-", IF HasSign(t) THEN Tail(t) ELSE t)

DecimalParts(s) == PartsOfTrimmed(TrimLeft(s))

SignedValue(neg, v) == IF neg THEN Neg(v) ELSE v

DecimalValue(p) ==
  SignedValue(p.neg,
              Fin(DigitsValue(p.ip) * Pow10(Len(p.fp)) + DigitsValue(p.fp),
                  Pow10(Len(p.fp))))

(* parseFloat(string): the longest prefix that is a decimal literal *)
ParseFloatParts(p) ==
  IF HasPrefix(p.body, InfinityLit)
  THEN (IF p.neg THEN NegInf ELSE PosInf)
  ELSE IF Len(p.ip) = 0 /\ Len(p.fp) = 0 THEN NaN
  ELSE DecimalValue(p)

ParseFloatStr(s) == ParseFloatParts(DecimalParts(s))

(* parseInt(string): sign and leading digits only *)
ParseIntParts(p) ==
  IF Len(p.ip) = 0 THEN NaN
  ELSE IF p.neg THEN Num(-DigitsValue(p.ip)) ELSE Num(DigitsValue(p.ip))

ParseIntStr(s) == ParseIntParts(DecimalParts(s))

(* Number(string): the whole trimmed string must be a literal; '' is 0 *)
NumberParts(p) ==
  IF HasPrefix(p.body, InfinityLit)
  THEN (IF TrimRight(Drop(p.body, Len(InfinityLit))) = <<>>
        THEN (IF p.neg THEN NegInf ELSE PosInf) ELSE NaN)
  ELSE IF (Len(p.ip) = 0 /\ Len(p.fp) = 0) \/ TrimRight(p.rest) # <<>> THEN NaN
  ELSE DecimalValue(p)

NumberStr(s) ==
  IF TrimLeft(s) = <<>> THEN Zero ELSE NumberParts(DecimalParts(s))

(* Truncation toward zero of a finite number *)
Trunc(x) ==
  IF x.n >= 0 THEN Num(x.n \div x.d) ELSE Num(-((-x.n) \div x.d))

(* parseFloat(v): v is first converted to a string.  String(x) of a finite
   number is the shortest literal that reads back as x, so the round trip
   returns x; String(NaN) = "NaN" and String(null) = "null" parse to NaN,
   String(Infinity) = "Infinity" parses to Infinity. *)
parseFloat(v) ==
  CASE v.t = "string" -> ParseFloatStr(v.s)
    [] v.t \in {"undefined", "null"} -> NaN
    [] OTHER -> v

(* parseInt(v): as parseFloat, but only the integer digits of String(x) are
   read, and "Infinity" has none. *)
parseInt(v) ==
  CASE v.t = "string" -> ParseIntStr(v.s)
    [] v.t = "fin" -> Trunc(v)
    [] OTHER -> NaN

(* Number(v) *)
Number(v) ==
  CASE v.t = "string" -> NumberStr(v.s)
    [] v.t = "null" -> Zero
    [] v.t = "undefined" -> NaN
    [] OTHER -> v

(* isNaN(v) is Number.isNaN(Number(v)) *)
isNaN(v) == IsNaN(Number(v))

----------------------------------------------------------------------------
(* Text produced for the user.  A text is a sequence of strings. *)

RECURSIVE NatDigits(_)
NatDigits(n) ==
  IF n < 10 THEN <<Digits[n + 1]>>
  ELSE NatDigits(n \div 10) \o <<Digits[(n % 10) + 1]>>

(* Digits of n with a comma between groups of three *)
RECURSIVE Grouped(_)
Grouped(n) ==
  IF n < 1000 THEN NatDigits(n)
  ELSE Grouped(n \div 1000)
         \o <<",", Digits[((n \div 100) % 10) + 1],
              Digits[((n \div 10) % 10) + 1], Digits[(n % 10) + 1]>>

(* Rounding of |x| to the nearest integer, halves away from zero *)
RoundHalfExpand(x) == (2 * Abs(x.n) + x.d) \div (2 * x.d)

formatCurrency(amount0) ==
  LET amount == ToNum(amount0)
  IN CASE amount.t = "fin" ->
            (IF amount.n < 0 THEN <<"-">> ELSE <<>>)
              \o <<"$">> \o Grouped(RoundHalfExpand(amount))
       [] amount.t = "inf" -> <<"$", "Infinity">>   \* the infinity sign
       [] amount.t = "ninf" -> <<"-", "$", "Infinity">>
       [] OTHER -> <<"$", "NaN">>

(* x.toFixed(2) *)
toFixed2(x) ==
  CASE x.t = "fin" ->
         LET h == (2 * Abs(x.n) * 100 + x.d) \div (2 * x.d)
         IN (IF x.n < 0 /\ h > 0 THEN <<"-">> ELSE <<>>)
              \o NatDigits(h \div 100)
              \o <<".", Digits[((h \div 10) % 10) + 1], Digits[(h % 10) + 1]>>
    [] x.t = "inf" -> <<"Infinity">>
    [] x.t = "ninf" -> <<"-", "Infinity">>
    [] OTHER -> <<"NaN">>

NoError == [isNull |-> TRUE, text |-> <<>>]
Message(text) == [isNull |-> FALSE, text |-> text]

ErrRequired == Message(<<"All transfer fields are required">>)
ErrAmount == Message(<<"Transfer amount must be greater than zero">>)
ErrSameFund == Message(<<"Source and target funds must be different">>)
ErrInsufficient(available) ==
  Message(<<"Insufficient balance. Available: ">> \o formatCurrency(available))
ErrAllocation(fundId) ==
  Message(<<"Invalid allocation for fund ID ">> \o NatDigits(fundId)
            \o <<". Must be between 0 and 100%">>)
ErrTotal(total) ==
  Message(<<"Total allocation must equal 100%. Current total: ">>
            \o toFixed2(total) \o <<"%">>)

----------------------------------------------------------------------------
(* Balance sets: sequences of entries
   [fundId, contributionTypeId, units, nav, balance] *)

Entry(f, c, u, v) ==
  [fundId |-> f, contributionTypeId |-> c, units |-> u, nav |-> v,
   balance |-> Mul(u, v)]

(* balances.find(b => b.fundId === fundId && b.contributionTypeId === typeId):
   the position of the first match, 0 when there is none *)
FindIndexFundOnly(bs, fundId, typeId) ==
  LET hits == {i \in 1..Len(bs) : StrictEq(bs[i].fundId, fundId)}
  IN IF hits = {} THEN 0 ELSE CHOOSE i \in hits : \A j \in hits : i <= j

FindIndex(bs, fundId, typeId) ==
  LET hits == {i \in 1..Len(bs) :
                 /\ StrictEq(bs[i].fundId, fundId)
                 /\ StrictEq(bs[i].contributionTypeId, typeId)}
  IN IF hits = {} THEN 0 ELSE CHOOSE i \in hits : \A j \in hits : i <= j

(* balance ? balance.balance : 0, for the entry at position i *)
BalanceAt(bs, i) == IF i = 0 THEN Zero ELSE bs[i].balance

getBalance(bs, fundId, typeId) ==
  BalanceAt(bs, FindIndex(bs, parseInt(fundId), parseInt(typeId)))

(* reduce((sum, b) => sum + b.balance, 0) over the entries at positions idx,
   taken in increasing order *)
RECURSIVE SumBalance(_, _)
SumBalance(bs, k) ==
  IF k = 0 THEN Zero ELSE Add(SumBalance(bs, k - 1), bs[k].balance)

TotalBalance(bs) == SumBalance(bs, Len(bs))

SelectFund(bs, fundId) == SelectSeq(bs, LAMBDA b : StrictEq(b.fundId, fundId))

calculateUnitsFromAmountNoNav(amount, nav) == ToNum(amount)

calculateUnitsFromAmount(amount, nav) == Div(amount, nav)

calculateBalanceNoNav(units, nav) == ToNum(units)

calculateBalance(units, nav) == Mul(units, nav)

----------------------------------------------------------------------------
(* Validator *)

(* The four checks of validateTransfer, each as the code states it *)
MissingField(p) ==
  Falsy(p.fromFund) \/ Falsy(p.fromType) \/ Falsy(p.toFund) \/ Falsy(p.amount)

NotPositiveNaNOnly(transferAmount) == IsNaN(transferAmount)

NotPositive(transferAmount) ==
  IsNaN(transferAmount) \/ Le(transferAmount, Zero)

InvalidAmount(p) == NotPositive(parseFloat(p.amount))

SameFund(p) == StrictEq(parseInt(p.fromFund), parseInt(p.toFund))

InsufficientBalanceStrict(p, bs) ==
  ~Lt(parseFloat(p.amount), getBalance(bs, p.fromFund, p.fromType))

InsufficientBalanceFundWide(p, bs) ==
  Gt(parseFloat(p.amount),
     TotalBalance(SelectSeq(bs, LAMBDA b : StrictEq(b.fundId, parseInt(p.fromFund)))))

InsufficientBalance(p, bs) ==
  Gt(parseFloat(p.amount), getBalance(bs, p.fromFund, p.fromType))

validateTransferSameFundFirst(p, bs) ==
  IF MissingField(p) THEN [valid |-> FALSE, error |-> ErrRequired]
  ELSE IF SameFund(p) THEN [valid |-> FALSE, error |-> ErrSameFund]
  ELSE IF InvalidAmount(p) THEN [valid |-> FALSE, error |-> ErrAmount]
  ELSE IF InsufficientBalance(p, bs)
  THEN [valid |-> FALSE,
        error |-> ErrInsufficient(getBalance(bs, p.fromFund, p.fromType))]
  ELSE [valid |-> TRUE, error |-> NoError]

validateTransfer(p, bs) ==
  IF MissingField(p) THEN [valid |-> FALSE, error |-> ErrRequired]
  ELSE IF InvalidAmount(p) THEN [valid |-> FALSE, error |-> ErrAmount]
  ELSE IF SameFund(p) THEN [valid |-> FALSE, error |-> ErrSameFund]
  ELSE IF InsufficientBalance(p, bs)
  THEN [valid |-> FALSE,
        error |-> ErrInsufficient(getBalance(bs, p.fromFund, p.fromType))]
  ELSE [valid |-> TRUE, error |-> NoError]

(* An allocation map is a function from fund ids (its integer-like keys, which
   Object.entries lists in ascending order) to values. *)
Keys(allocations) == DOMAIN allocations

BadPercentage(percentage) ==
  /\ ~StrictEq(percentage, Str(<<>>))
  /\ \/ isNaN(percentage)
     \/ Lt(parseFloat(percentage), Zero)
     \/ Gt(parseFloat(percentage), Num(100))

RECURSIVE SumAllocations(_, _)
SumAllocations(allocations, ks) ==
  IF ks = {} THEN Zero
  ELSE LET k == CHOOSE x \in ks : \A y \in ks : y <= x
           val == allocations[k]
       IN Add(SumAllocations(allocations, ks \ {k}),
              IF StrictEq(val, Str(<<>>)) THEN Zero ELSE parseFloat(val))

AbsNumOfPositive(x) == x

AbsNum(x) == IF Sign(x) < 0 THEN Neg(x) ELSE x

validateReallocation(allocations) ==
  LET bad == {k \in Keys(allocations) : BadPercentage(allocations[k])}
      total == SumAllocations(allocations, Keys(allocations))
  IN IF bad # {}
     THEN [valid |-> FALSE,
           error |-> ErrAllocation(CHOOSE k \in bad : \A j \in bad : k <= j)]
     ELSE IF Gt(AbsNum(Sub(total, Num(100))), Fin(1, 100))
     THEN [valid |-> FALSE, error |-> ErrTotal(total)]
     ELSE [valid |-> TRUE, error |-> NoError]

----------------------------------------------------------------------------
(* Balance calculator *)

(* What JSON.stringify followed by JSON.parse makes of a number: NaN and the
   infinities are written as null *)
JSONNumber(x) == IF x.t \in {"nan", "inf", "ninf", "undefined"} THEN Null ELSE x

(* JSON.parse(JSON.stringify(balances)): a new array of new entries.  shared
   tells whether the result is the caller's own array (it is not), so that
   the writes made to the result can be traced to the caller's set. *)
DeepCopyAlias(bs) == [val |-> bs, shared |-> TRUE]

DeepCopy(bs) ==
  [val |-> [i \in 1..Len(bs) |->
              [fundId |-> JSONNumber(bs[i].fundId),
               contributionTypeId |-> JSONNumber(bs[i].contributionTypeId),
               units |-> JSONNumber(bs[i].units),
               nav |-> JSONNumber(bs[i].nav),
               balance |-> JSONNumber(bs[i].balance)]],
   shared |-> FALSE]

(* The search for the target entry (toFund, fromType) *)
FindTargetNoCoercion(bs, p) == FindIndex(bs, p.toFund, parseInt(p.fromType))

FindTarget(bs, p) == FindIndex(bs, parseInt(p.toFund), parseInt(p.fromType))

(* targetNav: the NAV of the target entry when it exists and is not 0,
   otherwise the NAV of the source *)
NavAt(bs, t0, sourceNav) ==
  IF t0 = 0 THEN sourceNav
  ELSE IF Falsy(bs[t0].nav) THEN sourceNav ELSE bs[t0].nav

TargetNav(bs, p, sourceNav) ==
  NavAt(bs, FindIndex(bs, parseInt(p.toFund), parseInt(p.fromType)), sourceNav)

(* sourceBalance.units -= unitsToTransfer, and its balance recomputed *)
(* The entry at position i with its units set, and its balance recomputed
   from them *)
WithUnits(bs, i, units) ==
  [bs EXCEPT ![i].units = units,
             ![i].balance = calculateBalance(units, bs[i].nav)]

UpdateSource(bs, si, transferAmount) ==
  WithUnits(bs, si,
            Sub(bs[si].units,
                calculateUnitsFromAmount(transferAmount, bs[si].nav)))

NewTargetAtUnitNav(p, targetNav) ==
  [fundId |-> parseInt(p.toFund), contributionTypeId |-> parseInt(p.fromType),
   units |-> Zero, nav |-> Num(1), balance |-> Zero]

NewTarget(p, targetNav) ==
  [fundId |-> parseInt(p.toFund), contributionTypeId |-> parseInt(p.fromType),
   units |-> Zero, nav |-> targetNav, balance |-> Zero]

(* targetBalance.units += amount / targetBalance.nav, and its balance
   recomputed *)
UpdateTargetByAmount(bs, tj, transferAmount) ==
  WithUnits(bs, tj, Add(bs[tj].units, transferAmount))

UpdateTarget(bs, tj, transferAmount) ==
  WithUnits(bs, tj,
            Add(bs[tj].units,
                calculateUnitsFromAmount(transferAmount, bs[tj].nav)))

(* The target entry, found at position tj or appended, then updated *)
CreditAt(bs, tj, p, targetNav, transferAmount) ==
  IF tj # 0
  THEN UpdateTarget(bs, tj, transferAmount)
  ELSE UpdateTarget(Append(bs, NewTarget(p, targetNav)), Len(bs) + 1,
                    transferAmount)

CreditTarget(bs, p, targetNav) ==
  CreditAt(bs, FindTarget(bs, p), p, targetNav, parseFloat(p.amount))

(* The writes made once the source entry is found at position si *)
TransferAt(p, updatedBalances, si) ==
  IF si = 0 THEN updatedBalances
  ELSE CreditTarget(UpdateSource(updatedBalances, si, parseFloat(p.amount)),
                    p,
                    TargetNav(updatedBalances, p, updatedBalances[si].nav))

(* The writes of calculateTransferPreview to its working array *)
TransferOn(p, updatedBalances) ==
  TransferAt(p, updatedBalances,
             FindIndex(updatedBalances, parseInt(p.fromFund),
                       parseInt(p.fromType)))

(* ret is the array a calculator returns, arg the caller's array as the call
   leaves it: the caller's own array, written to only when the working array
   is that very array *)
Returned(shared, result, bs) ==
  [ret |-> result, arg |-> IF shared THEN result ELSE bs]

TransferOnCopy(p, copy, bs) == Returned(copy.shared, TransferOn(p, copy.val), bs)

calculateTransferPreview(p, bs) == TransferOnCopy(p, DeepCopy(bs), bs)

(* The body of funds.forEach for one fund *)
(* The share of the fund's target amount that one of its entries keeps *)
ProportionEqualParts(balance, fundTotal, count) == Div(Num(1), Num(count))

Proportion(balance, fundTotal, count) ==
  IF Gt(fundTotal, Zero) THEN Div(balance.balance, fundTotal)
  ELSE Div(Num(1), Num(count))

SetUnitsRepriced(balance, units) ==
  [balance EXCEPT !.units = units,
                  !.nav = Num(1),
                  !.balance = calculateBalance(units, Num(1))]

SetUnits(balance, units) ==
  [balance EXCEPT !.units = units,
                  !.balance = calculateBalance(units, balance.nav)]

(* The body of fundBalances.forEach for one entry *)
Adjust(balance, targetAmount, fundTotal, count) ==
  SetUnits(balance,
           calculateUnitsFromAmount(
             Mul(targetAmount, Proportion(balance, fundTotal, count)),
             balance.nav))

AdjustFund(updatedBalances, fundId, targetAmount, fundTotal, count) ==
  [i \in 1..Len(updatedBalances) |->
     IF StrictEq(updatedBalances[i].fundId, Num(fundId))
     THEN Adjust(updatedBalances[i], targetAmount, fundTotal, count)
     ELSE updatedBalances[i]]

ReallocateToNoSkipOfEmpty(updatedBalances, totalBalance, fundId, percentage) ==
  IF percentage.t = "undefined"
  THEN updatedBalances
  ELSE AdjustFund(updatedBalances, fundId,
                  Div(Mul(totalBalance, parseFloat(percentage)), Num(100)),
                  TotalBalance(SelectFund(updatedBalances, Num(fundId))),
                  Len(SelectFund(updatedBalances, Num(fundId))))

ReallocateTo(updatedBalances, totalBalance, fundId, percentage) ==
  IF percentage.t = "undefined" \/ StrictEq(percentage, Str(<<>>))
  THEN updatedBalances
  ELSE AdjustFund(updatedBalances, fundId,
                  Div(Mul(totalBalance, parseFloat(percentage)), Num(100)),
                  TotalBalance(SelectFund(updatedBalances, Num(fundId))),
                  Len(SelectFund(updatedBalances, Num(fundId))))

(* The body of funds.forEach for one fund *)
ReallocateFundRunningTotal(allocations, updatedBalances, totalBalance, fundId) ==
  ReallocateTo(updatedBalances, TotalBalance(updatedBalances), fundId,
               IF fundId \in Keys(allocations)
               THEN allocations[fundId] ELSE Undefined)

ReallocateFund(allocations, updatedBalances, totalBalance, fundId) ==
  ReallocateTo(updatedBalances, totalBalance, fundId,
               IF fundId \in Keys(allocations)
               THEN allocations[fundId] ELSE Undefined)

(* funds.forEach over the first k funds of the list *)
RECURSIVE ReallocateFunds(_, _, _, _, _)
ReallocateFunds(allocations, updatedBalances, totalBalance, fs, k) ==
  IF k = 0 THEN updatedBalances
  ELSE ReallocateFund(allocations,
                      ReallocateFunds(allocations, updatedBalances,
                                      totalBalance, fs, k - 1),
                      totalBalance, fs[k])

ReallocateOnCopy(allocations, copy, bs, fs) ==
  Returned(copy.shared,
           ReallocateFunds(allocations, copy.val, TotalBalance(copy.val), fs,
                           Len(fs)),
           bs)

calculateReallocationPreview(allocations, bs, fs) ==
  ReallocateOnCopy(allocations, DeepCopy(bs), bs, fs)

----------------------------------------------------------------------------
(* Inputs *)

FundIds == {1, 2}
TypeIds == {1, 2}
FundList == <<1, 2>>

IdStr(n) == Str(NatDigits(n))

(* The (fund, bucket) pairs in the order of the data file *)
KeyOrder == <<<<1, 1>>, <<1, 2>>, <<2, 1>>>>

Absent == <<-1, -1>>

(* The balance set holding, for each pair k of KeyOrder that h does not map
   to Absent, the entry with units h[k][1] and NAV h[k][2] *)
RECURSIVE SetOf(_, _)
SetOf(h, k) ==
  IF k = 0 THEN <<>>
  ELSE IF h[k] = Absent THEN SetOf(h, k - 1)
  ELSE Append(SetOf(h, k - 1),
              Entry(Num(KeyOrder[k][1]), Num(KeyOrder[k][2]),
                    Num(h[k][1]), Num(h[k][2])))

(* Balance sets conforming to the data model: one entry per pair at most,
   balance = units * nav, NAV non-negative *)
Holdings(navs) == {Absent} \cup ((0..MaxUnits) \X navs)

BalanceSets(navs) ==
  {SetOf(h, Len(KeyOrder)) : h \in [1..Len(KeyOrder) -> Holdings(navs)]}

(* The same, holding bucket 1 only *)
Bucket1Sets(navs) ==
  {SetOf(h, Len(KeyOrder)) :
     h \in {g \in [1..Len(KeyOrder) -> Holdings(navs)] :
              \A k \in 1..Len(KeyOrder) : KeyOrder[k][2] # 1 => g[k] = Absent}}

(* Transfer requests as the form produces them: ids and amount are strings *)
FormAmounts ==
  {IdStr(n) : n \in 1..MaxAmount} \cup {Str(<<"0", ".", "5">>)}

FormTransfers ==
  [fromFund : {IdStr(f) : f \in FundIds},
   fromType : {IdStr(c) : c \in TypeIds},
   toFund   : {IdStr(f) : f \in FundIds},
   amount   : FormAmounts]

(* Transfer requests of any shape a caller of validateTransfer may pass *)
AnyFund == {Undefined, Str(<<>>), IdStr(1), IdStr(2), Num(1)}
AnyType == {Str(<<>>), IdStr(1), Num(1)}
AnyAmount ==
  {Undefined, Str(<<>>), Str(<<"0">>), Str(<<"-", "1">>), Str(<<"a">>),
   Str(<<"1", "a">>), Str(<<"0", ".", "5">>), Str(InfinityLit),
   Num(0), Num(-1), NaN, PosInf}
    \cup {IdStr(n) : n \in 1..MaxAmount} \cup {Num(n) : n \in 1..MaxAmount}

AnyTransfers ==
  [fromFund : AnyFund, fromType : AnyType, toFund : AnyFund, amount : AnyAmount]

NoParams ==
  [fromFund |-> Undefined, fromType |-> Undefined, toFund |-> Undefined,
   amount |-> Undefined]

(* Allocation maps: every subset of the funds as keys *)
Maps(values) == UNION {[ks -> values] : ks \in SUBSET FundIds}

CalcPercentages == {Str(<<>>), Num(0), Str(<<"5", "0">>), Num(100)}

AnyPercentages ==
  {Str(<<>>), Str(<<"0">>), Str(<<"5", "0">>), Str(<<"1", "0", "0">>),
   Str(<<"1", "1", "0">>), Str(<<"-", "1">>), Str(<<"a">>),
   Str(<<"5", "0", "a">>), Str(<<"4", "9", ".", "9", "9", "5">>),
   Str(<<"4", "9", ".", "9", "8">>), Str(<<" ">>), Num(50), Num(100),
   Num(110), NaN}

NoAllocations == [k \in {} |-> Undefined]

----------------------------------------------------------------------------
(* The record of the last call: its arguments, the caller's balance set
   before it, and what it returned *)

NoCall ==
  [fn |-> "none", params |-> NoParams, allocations |-> NoAllocations,
   before |-> <<>>, valid |-> FALSE, error |-> NoError, hasOut |-> FALSE,
   out |-> <<>>]

Validated(fn, p, a, bs, v) ==
  [fn |-> fn, params |-> p, allocations |-> a, before |-> bs,
   valid |-> v.valid, error |-> v.error, hasOut |-> FALSE, out |-> <<>>]

Calculated(fn, p, a, bs, r) ==
  [fn |-> fn, params |-> p, allocations |-> a, before |-> bs,
   valid |-> TRUE, error |-> NoError, hasOut |-> TRUE, out |-> r.ret]

----------------------------------------------------------------------------
(* The state of MoveMoneyModal when it is closed *)

(* The object that resetTransferData stores *)
resetTransferData ==
  [fromFund |-> Str(<<>>), fromType |-> Str(<<>>), toFund |-> Str(<<>>),
   amount |-> Str(<<>>)]

(* investments.funds.reduce((acc, fund) => ({...acc, [fund.id]: ''}), {}) *)
BlankAllocations(fs) == [f \in {fs[i] : i \in 1..Len(fs)} |-> Str(<<>>)]

(* The modal after its effects of mount, and after those of a close:
   hasPreview tells that previewBalances is not null *)
ClosedModal ==
  [isOpen |-> FALSE, mode |-> "select", transferData |-> resetTransferData,
   allocations |-> BlankAllocations(FundList), hasPreview |-> FALSE,
   previewBalances |-> <<>>, error |-> NoError]

----------------------------------------------------------------------------
(* The four functions called directly, once, on a balance set the caller
   holds *)

CallValidateTransfer(requests) ==
  \E p \in requests :
    /\ call.fn = "none"
    /\ call' = Validated("validateTransfer", p, NoAllocations, balances,
                         validateTransfer(p, balances))
    /\ UNCHANGED <<balances, funds, investmentData, error, step>>
    /\ UNCHANGED page

CallValidateReallocation(maps) ==
  \E a \in maps :
    /\ call.fn = "none"
    /\ call' = Validated("validateReallocation", NoParams, a, balances,
                         validateReallocation(a))
    /\ UNCHANGED <<balances, funds, investmentData, error, step>>
    /\ UNCHANGED page

CallCalculateTransferPreview ==
  \E p \in FormTransfers :
    LET r == calculateTransferPreview(p, balances)
    IN /\ call.fn = "none"
       /\ call' = Calculated("calculateTransferPreview", p, NoAllocations,
                             balances, r)
       /\ balances' = r.arg
       /\ UNCHANGED <<funds, investmentData, error, step>>
       /\ UNCHANGED page

CallCalculateReallocationPreview ==
  \E a \in Maps(CalcPercentages) :
    LET r == calculateReallocationPreview(a, balances, funds)
    IN /\ call.fn = "none"
       /\ call' = Calculated("calculateReallocationPreview", NoParams, a,
                             balances, r)
       /\ balances' = r.arg
       /\ UNCHANGED <<funds, investmentData, error, step>>
       /\ UNCHANGED page

InitPure(sets) ==
  /\ balances \in sets
  /\ funds = FundList
  /\ investmentData = <<>>
  /\ error = NoError
  /\ call = NoCall
  /\ step = 0
  /\ rendered = <<>>
  /\ modal = ClosedModal
  /\ parsed = FALSE

(* The validators on requests of any shape *)
InitValidator == InitPure(Bucket1Sets(0..MaxNav))

NextValidator ==
  \/ CallValidateTransfer(AnyTransfers)
  \/ CallValidateReallocation(Maps(AnyPercentages))

SpecValidator == InitValidator /\ [][NextValidator]_vars

(* The validators and calculators on the requests of the form *)
InitCalculator == InitPure(BalanceSets(0..MaxNav))

NextCalculator ==
  \/ CallValidateTransfer(FormTransfers)
  \/ CallValidateReallocation(Maps(CalcPercentages))
  \/ CallCalculateTransferPreview
  \/ CallCalculateReallocationPreview

SpecCalculator == InitCalculator /\ [][NextCalculator]_vars

----------------------------------------------------------------------------
(* InvestmentProvider: the state holder of InvestmentContext.jsx *)

(* Data sets standing for data/investments.json: one entry per pair at most,
   balance = units * nav, positive NAVs *)
InvestmentDataSets ==
  { <<Entry(Num(1), Num(1), Num(2), Num(1)),
      Entry(Num(1), Num(2), Num(1), Num(2)),
      Entry(Num(2), Num(1), Fin(3, 2), Num(2))>>,
    <<Entry(Num(1), Num(1), Num(2), Num(1)),
      Entry(Num(1), Num(2), Num(0), Num(2))>> }

(* What the transfer form submits: ids chosen in the selects, the amount
   typed in the number input (possibly left empty) *)
ProviderTransfers ==
  [fromFund : {IdStr(f) : f \in FundIds},
   fromType : {IdStr(c) : c \in TypeIds},
   toFund   : {IdStr(f) : f \in FundIds},
   amount   : {Str(<<>>), Str(<<"1">>), Str(<<"2">>)}]

(* What the reallocation form submits: one percentage per fund, possibly
   left empty *)
ProviderAllocations ==
  [FundIds -> {Str(<<>>), Str(<<"5", "0">>), Str(<<"1", "0", "0">>)}]

(* Object.entries(allocations).reduce(...): '' becomes 0, anything else
   Number(value) *)
NumericAllocationsKeepEmpty(allocations) ==
  [k \in Keys(allocations) |->
     IF StrictEq(allocations[k], Str(<<>>)) THEN allocations[k]
     ELSE Number(allocations[k])]

NumericAllocations(allocations) ==
  [k \in Keys(allocations) |->
     IF StrictEq(allocations[k], Str(<<>>)) THEN Zero
     ELSE Number(allocations[k])]

Committed(fn, p, a, bs, v, out) ==
  [fn |-> fn, params |-> p, allocations |-> a, before |-> bs,
   valid |-> v.valid, error |-> v.error, hasOut |-> v.valid, out |-> out]

(* The writes of transferFunds.  investments.balances, which the function
   validates and computes on, is the held set as the render that created the
   function captured it; setInvestments replaces the held set by the computed
   one whatever it holds by then *)
CommitTransfer(params) ==
  LET validation == validateTransfer(params, rendered)
      r == calculateTransferPreview(params, rendered)
  IN /\ step < MaxSteps
     /\ step' = step + 1
     /\ IF ~validation.valid
        THEN /\ error' = validation.error
             /\ balances' = balances
             /\ call' = Committed("transferFunds", params, NoAllocations,
                                  rendered, validation, <<>>)
        ELSE /\ error' = NoError
             /\ balances' = r.ret
             /\ call' = Committed("transferFunds", params, NoAllocations,
                                  rendered, validation, r.ret)
     /\ UNCHANGED <<funds, investmentData>>

(* The writes of reallocateFunds *)
CommitReallocation(allocations) ==
  LET numericAllocations == NumericAllocations(allocations)
      validation == validateReallocation(numericAllocations)
      r == calculateReallocationPreview(numericAllocations, rendered, funds)
  IN /\ step < MaxSteps
     /\ step' = step + 1
     /\ IF ~validation.valid
        THEN /\ error' = validation.error
             /\ balances' = balances
             /\ call' = Committed("reallocateFunds", NoParams, allocations,
                                  rendered, validation, <<>>)
        ELSE /\ error' = NoError
             /\ balances' = r.ret
             /\ call' = Committed("reallocateFunds", NoParams, allocations,
                                  rendered, validation, r.ret)
     /\ UNCHANGED <<funds, investmentData>>

(* The provider's functions, each called from the render that follows the
   previous call: the step ends with the render that the state change
   causes *)
transferFundsUnvalidated(params) ==
  LET validation == validateTransfer(params, rendered)
      r == calculateTransferPreview(params, rendered)
  IN /\ step < MaxSteps
     /\ step' = step + 1
     /\ error' = IF validation.valid THEN NoError ELSE validation.error
     /\ balances' = r.ret
     /\ call' = Committed("transferFunds", params, NoAllocations,
                          rendered, validation, r.ret)
     /\ rendered' = balances'
     /\ UNCHANGED <<funds, investmentData, modal, parsed>>

transferFunds(params) ==
  /\ CommitTransfer(params)
  /\ rendered' = balances'
  /\ UNCHANGED <<modal, parsed>>

reallocateFunds(allocations) ==
  /\ CommitReallocation(allocations)
  /\ rendered' = balances'
  /\ UNCHANGED <<modal, parsed>>

(* The object {valid, error, projectedBalances} that a preview returns:
   hasOut tells that projectedBalances is not null, out is its value, and arg
   is the held set as the calculator, when called, leaves it *)
PreviewResult(validation, r, bs) ==
  [valid |-> validation.valid, error |-> validation.error,
   hasOut |-> validation.valid,
   out |-> IF validation.valid THEN r.ret ELSE <<>>,
   arg |-> IF validation.valid THEN r.arg ELSE bs]

PreviewTransferResult(params, bs) ==
  PreviewResult(validateTransfer(params, bs),
                calculateTransferPreview(params, bs), bs)

PreviewNumericResult(numericAllocations, bs, fs) ==
  PreviewResult(validateReallocation(numericAllocations),
                calculateReallocationPreview(numericAllocations, bs, fs), bs)

PreviewReallocationResultUnconverted(allocations, bs, fs) ==
  PreviewNumericResult(allocations, bs, fs)

PreviewReallocationResult(allocations, bs, fs) ==
  PreviewNumericResult(NumericAllocations(allocations), bs, fs)

Previewed(fn, p, a, bs, o) ==
  [fn |-> fn, params |-> p, allocations |-> a, before |-> bs,
   valid |-> o.valid, error |-> o.error, hasOut |-> o.hasOut, out |-> o.out]

previewTransferCommitting(params) ==
  LET o == PreviewTransferResult(params, rendered)
  IN /\ step < MaxSteps
     /\ call' = Previewed("previewTransfer", params, NoAllocations, rendered, o)
     /\ balances' = IF o.hasOut THEN o.out ELSE balances
     /\ rendered' = balances'
     /\ UNCHANGED <<funds, investmentData, error, step, modal, parsed>>

previewTransfer(params) ==
  LET o == PreviewTransferResult(params, rendered)
  IN /\ step < MaxSteps
     /\ call' = Previewed("previewTransfer", params, NoAllocations, rendered, o)
     /\ balances' = o.arg
     /\ rendered' = balances'
     /\ UNCHANGED <<funds, investmentData, error, step, modal, parsed>>

previewReallocation(allocations) ==
  LET o == PreviewReallocationResult(allocations, rendered, funds)
  IN /\ step < MaxSteps
     /\ call' = Previewed("previewReallocation", NoParams, allocations,
                          rendered, o)
     /\ balances' = o.arg
     /\ rendered' = balances'
     /\ UNCHANGED <<funds, investmentData, error, step, modal, parsed>>

(* The writes of resetToInitial: investments becomes the imported object *)
ResetInvestments ==
  /\ balances' = investmentData
  /\ error' = NoError
  /\ call' = [NoCall EXCEPT !.fn = "resetToInitial", !.before = balances]
  /\ parsed' = FALSE
  /\ UNCHANGED <<funds, investmentData, step>>

resetToInitial ==
  /\ ResetInvestments
  /\ rendered' = balances'
  /\ UNCHANGED modal

(* The provider mounted without saved data *)
Init ==
  /\ investmentData \in InvestmentDataSets
  /\ balances = investmentData
  /\ funds = FundList
  /\ error = NoError
  /\ call = NoCall
  /\ step = 0
  /\ rendered = balances
  /\ modal = ClosedModal
  /\ parsed = FALSE

Next ==
  \/ \E params \in ProviderTransfers : transferFunds(params)
  \/ \E allocations \in ProviderAllocations : reallocateFunds(allocations)
  \/ \E params \in ProviderTransfers : previewTransfer(params)
  \/ \E allocations \in ProviderAllocations : previewReallocation(allocations)
  \/ resetToInitial

Spec == Init /\ [][Next]_vars

----------------------------------------------------------------------------
(* The provider with its renders as steps of their own: a consumer may call
   the functions of one render several times before React renders again (two
   calls in one event handler, a call from a callback that outlived its
   render) *)

CallTransferFunds ==
  \E params \in ProviderTransfers :
    /\ CommitTransfer(params)
    /\ UNCHANGED page

CallReallocateFunds ==
  \E allocations \in ProviderAllocations :
    /\ CommitReallocation(allocations)
    /\ UNCHANGED page

CallResetToInitial ==
  /\ ResetInvestments
  /\ UNCHANGED <<rendered, modal>>

(* The render that a state change schedules: new functions are created,
   closed over the held set *)
Render ==
  /\ rendered # balances
  /\ rendered' = balances
  /\ UNCHANGED <<balances, funds, investmentData, error, call, step, modal,
                 parsed>>

NextRender ==
  \/ CallTransferFunds
  \/ CallReallocateFunds
  \/ CallResetToInitial
  \/ Render

SpecRender == Init /\ [][NextRender]_vars

----------------------------------------------------------------------------
(* MoveMoneyModal in the account page.  Every action is one user event with
   the effects and the render that follow it, so each handler runs in the
   render that follows the previous event: rendered = balances *)

(* Standing for the contributionTypes of data/investments.json *)
ContributionTypes ==
  <<[id |-> 1, name |-> "Employee Pre-Tax"], [id |-> 2, name |-> "Loan Fund"]>>

eligibleContributionTypesUnfiltered == ContributionTypes

eligibleContributionTypes ==
  SelectSeq(ContributionTypes, LAMBDA type : type.name # "Loan Fund")

(* The values of the options of the three selects; an option's value is the
   string of the id, the first option's is '' *)
FromFundOptions ==
  {Str(<<>>)} \cup {IdStr(funds[i]) : i \in 1..Len(funds)}

FromBucketOptions ==
  {Str(<<>>)}
    \cup {IdStr(eligibleContributionTypes[i].id) :
            i \in 1..Len(eligibleContributionTypes)}

ToFundOptions(fromFund) ==
  {Str(<<>>)}
    \cup {IdStr(funds[i]) :
            i \in {j \in 1..Len(funds) :
                     ~StrictEq(Num(funds[j]), parseInt(fromFund))}}

(* What the user types in the amount input and in a percentage input *)
TypedAmounts == {Str(<<>>), Str(<<"1">>)}

TypedPercentages ==
  {<<>>, <<"0">>, <<"5", "0">>, <<"0", "5", "0">>, <<"1", "0", "0">>}

(* value.replace(/^0+/, '') *)
RECURSIVE StripZeros(_)
StripZeros(s) ==
  IF s # <<>> /\ Head(s) = "0" THEN StripZeros(Tail(s)) ELSE s

(* Object.values(allocations).reduce(
     (sum, val) => sum + (val === '' ? 0 : Number(val)), 0) *)
RECURSIVE SumOfValues(_, _)
SumOfValues(allocations, ks) ==
  IF ks = {} THEN Zero
  ELSE LET k == CHOOSE x \in ks : \A y \in ks : y <= x
       IN Add(SumOfValues(allocations, ks \ {k}),
              IF StrictEq(allocations[k], Str(<<>>)) THEN Zero
              ELSE Number(allocations[k]))

totalAllocation == SumOfValues(modal.allocations, Keys(modal.allocations))

(* What a pure event of the modal leaves alone *)
provider ==
  <<balances, funds, investmentData, error, call, step, rendered, parsed>>

(* The Move Money button of the account page *)
OpenModal ==
  /\ ~modal.isOpen
  /\ modal' = [modal EXCEPT !.isOpen = TRUE]
  /\ UNCHANGED provider

(* The two buttons of mode 'select' *)
ChooseMode ==
  \E m \in {"transfer", "reallocate"} :
    /\ modal.isOpen
    /\ modal.mode = "select"
    /\ modal' = [modal EXCEPT !.mode = m]
    /\ UNCHANGED provider

(* onChange of the From Fund select *)
SelectFromFund ==
  \E v \in FromFundOptions :
    /\ modal.isOpen
    /\ modal.mode = "transfer"
    /\ modal' = [modal EXCEPT !.transferData.fromFund = v,
                              !.transferData.fromType = Str(<<>>)]
    /\ UNCHANGED provider

(* onChange of the From Bucket select, rendered once a fund is chosen *)
SelectFromType ==
  \E v \in FromBucketOptions :
    /\ modal.isOpen
    /\ modal.mode = "transfer"
    /\ ~Falsy(modal.transferData.fromFund)
    /\ modal' = [modal EXCEPT !.transferData.fromType = v]
    /\ UNCHANGED provider

(* onChange of the To Fund select, disabled until a fund is chosen *)
SelectToFund ==
  \E v \in ToFundOptions(modal.transferData.fromFund) :
    /\ modal.isOpen
    /\ modal.mode = "transfer"
    /\ ~Falsy(modal.transferData.fromFund)
    /\ modal' = [modal EXCEPT !.transferData.toFund = v]
    /\ UNCHANGED provider

(* onChange of the amount input, rendered once a bucket is chosen *)
TypeAmount ==
  \E v \in TypedAmounts :
    /\ modal.isOpen
    /\ modal.mode = "transfer"
    /\ ~Falsy(modal.transferData.fromType)
    /\ modal' = [modal EXCEPT !.transferData.amount = v]
    /\ UNCHANGED provider

(* The modal after a preview that returned o *)
Showing(mode, o) ==
  IF o.valid
  THEN [modal EXCEPT !.error = NoError, !.hasPreview = TRUE,
                     !.previewBalances = o.out, !.mode = mode]
  ELSE [modal EXCEPT !.error = o.error]

(* Submit of the transfer form; the button is disabled while a field is
   empty *)
handlePreviewUnvalidated ==
  LET o == [PreviewTransferResult(modal.transferData, rendered)
              EXCEPT !.valid = TRUE,
                     !.out = calculateTransferPreview(modal.transferData,
                                                      rendered).ret]
  IN /\ modal.isOpen
     /\ modal.mode = "transfer"
     /\ ~Falsy(modal.transferData.fromFund)
     /\ ~Falsy(modal.transferData.fromType)
     /\ ~Falsy(modal.transferData.toFund)
     /\ ~Falsy(modal.transferData.amount)
     /\ modal' = Showing("preview-transfer", o)
     /\ call' = Previewed("previewTransfer", modal.transferData,
                          NoAllocations, rendered, o)
     /\ balances' = o.arg
     /\ rendered' = balances'
     /\ UNCHANGED <<funds, investmentData, error, step, parsed>>

handlePreview ==
  LET validation == validateTransfer(modal.transferData, rendered)
      o == PreviewTransferResult(modal.transferData, rendered)
  IN /\ modal.isOpen
     /\ modal.mode = "transfer"
     /\ ~Falsy(modal.transferData.fromFund)
     /\ ~Falsy(modal.transferData.fromType)
     /\ ~Falsy(modal.transferData.toFund)
     /\ ~Falsy(modal.transferData.amount)
     /\ IF ~validation.valid
        THEN /\ modal' = [modal EXCEPT !.error = validation.error]
             /\ UNCHANGED provider
        ELSE /\ modal' = Showing("preview-transfer", o)
             /\ call' = Previewed("previewTransfer", modal.transferData,
                                  NoAllocations, rendered, o)
             /\ balances' = o.arg
             /\ rendered' = balances'
             /\ UNCHANGED <<funds, investmentData, error, step, parsed>>

(* Submit of the reallocation form; the button is disabled while the total
   is farther than 0.1 from 100 *)
handleReallocationPreview ==
  LET validation == validateReallocation(modal.allocations)
      o == PreviewReallocationResult(modal.allocations, rendered, funds)
  IN /\ modal.isOpen
     /\ modal.mode = "reallocate"
     /\ ~Gt(AbsNum(Sub(totalAllocation, Num(100))), Fin(1, 10))
     /\ IF ~validation.valid
        THEN /\ modal' = [modal EXCEPT !.error = validation.error]
             /\ UNCHANGED provider
        ELSE /\ modal' = Showing("preview-reallocate", o)
             /\ call' = Previewed("previewReallocation", NoParams,
                                  modal.allocations, rendered, o)
             /\ balances' = o.arg
             /\ rendered' = balances'
             /\ UNCHANGED <<funds, investmentData, error, step, parsed>>

(* onChange of the percentage input of one fund *)
updateAllocation ==
  \E i \in 1..Len(funds), value \in TypedPercentages :
    /\ modal.isOpen
    /\ modal.mode = "reallocate"
    /\ modal' = [modal EXCEPT !.allocations[funds[i]] = Str(StripZeros(value))]
    /\ UNCHANGED provider

(* The Back buttons of the two preview modes *)
BackToTransfer ==
  /\ modal.isOpen
  /\ modal.mode = "preview-transfer"
  /\ modal' = [modal EXCEPT !.mode = "transfer"]
  /\ UNCHANGED provider

BackToReallocate ==
  /\ modal.isOpen
  /\ modal.mode = "preview-reallocate"
  /\ modal' = [modal EXCEPT !.mode = "reallocate"]
  /\ UNCHANGED provider

(* The modal after a commit: closed by onClose, and reset by the effect of
   !isOpen, when the provider function returned true; otherwise open, with
   the provider's error once the effect of contextError has seen it change *)
AfterCommit ==
  IF call'.hasOut THEN ClosedModal
  ELSE [modal EXCEPT !.error = IF error' # error THEN error' ELSE @]

(* The Confirm buttons of the two preview modes *)
handleTransferSubmit ==
  /\ modal.isOpen
  /\ modal.mode = "preview-transfer"
  /\ CommitTransfer(modal.transferData)
  /\ rendered' = balances'
  /\ modal' = AfterCommit
  /\ UNCHANGED parsed

handleReallocationSubmit ==
  /\ modal.isOpen
  /\ modal.mode = "preview-reallocate"
  /\ CommitReallocation(modal.allocations)
  /\ rendered' = balances'
  /\ modal' = AfterCommit
  /\ UNCHANGED parsed

(* The close button, the Cancel buttons and a mouse press outside the
   dialog, followed by the effect of !isOpen *)
handleClose ==
  /\ modal.isOpen
  /\ modal' = ClosedModal
  /\ UNCHANGED provider

(* The Reset Data button of the page's navigation bar, confirmed.  The
   button stays in the page while the modal is open and can be activated
   from the keyboard; when investments.funds becomes another array the
   modal's effects of [investments?.funds] blank the allocations *)
handleReset ==
  /\ ResetInvestments
  /\ rendered' = balances'
  /\ modal' = IF parsed
              THEN [modal EXCEPT !.allocations = BlankAllocations(funds)]
              ELSE modal

(* The page loaded with or without saved data *)
InitModal ==
  /\ investmentData \in InvestmentDataSets
  /\ balances = investmentData
  /\ funds = FundList
  /\ error = NoError
  /\ call = NoCall
  /\ step = 0
  /\ rendered = balances
  /\ modal = ClosedModal
  /\ parsed \in BOOLEAN

NextModal ==
  \/ OpenModal
  \/ ChooseMode
  \/ SelectFromFund
  \/ SelectFromType
  \/ SelectToFund
  \/ TypeAmount
  \/ handlePreview
  \/ BackToTransfer
  \/ handleTransferSubmit
  \/ updateAllocation
  \/ handleReallocationPreview
  \/ BackToReallocate
  \/ handleReallocationSubmit
  \/ handleClose
  \/ handleReset

SpecModal == InitModal /\ [][NextModal]_vars

----------------------------------------------------------------------------
(* Properties of validateTransfer *)

Min(S) == CHOOSE i \in S : \A j \in S : i <= j

(* The checks of validateTransfer that the request p fails against bs, by
   their rank in the documented order *)
FailingChecks(p, bs) ==
  {i \in 1..4 :
     \/ i = 1 /\ MissingField(p)
     \/ i = 2 /\ InvalidAmount(p)
     \/ i = 3 /\ SameFund(p)
     \/ i = 4 /\ InsufficientBalance(p, bs)}

IsErrorOfCheck(e, i) ==
  \/ i = 1 /\ e = ErrRequired
  \/ i = 2 /\ e = ErrAmount
  \/ i = 3 /\ e = ErrSameFund
  \/ i = 4 /\ ~e.isNull /\ e.text[1] = "Insufficient balance. Available: "

(* C1: validateTransfer returns the error of the first failing check in the
   order missing-field, invalid-amount, same-fund, insufficient-balance,
   whatever later checks the request fails as well. *)
C1_FirstFailingCheck ==
  call.fn = "validateTransfer" =>
    LET failing == FailingChecks(call.params, call.before)
    IN failing # {} =>
         ~call.valid /\ IsErrorOfCheck(call.error, Min(failing))

(* A request failing both the amount check and the same-fund check was
   answered with the invalid-amount error *)
C1_Witness ==
  /\ call.fn = "validateTransfer"
  /\ FailingChecks(call.params, call.before) = {2, 3}
  /\ call.error = ErrAmount

Present(x) ==
  ~(x.t \in {"undefined", "null"} \/ (x.t = "string" /\ x.s = <<>>))

(* The balance available for the pair (f, c): that of its entry, 0 when the
   set has no entry for it *)
Available(bs, f, c) ==
  LET at == {i \in 1..Len(bs) :
               bs[i].fundId = Num(f) /\ bs[i].contributionTypeId = Num(c)}
  IN IF at = {} THEN Zero ELSE bs[Min(at)].balance

IdOf(x) == parseInt(x)

Accepted(p, bs) ==
  /\ Present(p.fromFund) /\ Present(p.fromType)
  /\ Present(p.toFund) /\ Present(p.amount)
  /\ IsFinite(IdOf(p.fromFund)) /\ IsFinite(IdOf(p.fromType))
  /\ Gt(parseFloat(p.amount), Zero)
  /\ IdOf(p.fromFund) # IdOf(p.toFund)
  /\ Le(parseFloat(p.amount),
        Available(bs, IdOf(p.fromFund).n, IdOf(p.fromType).n))

(* C2: validateTransfer returns {valid: true, error: null} exactly when the
   four fields are present, the amount is a number above zero, the funds
   differ and the amount is at most the balance of the (fromFund, fromType)
   entry, a missing entry counting as 0. *)
C2_ValidIff ==
  call.fn = "validateTransfer" =>
    /\ call.valid <=> Accepted(call.params, call.before)
    /\ call.valid <=> call.error.isNull

(* An amount exactly equal to the available balance was accepted *)
C2_Witness ==
  /\ call.fn = "validateTransfer"
  /\ call.valid
  /\ parseFloat(call.params.amount)
       = Available(call.before, IdOf(call.params.fromFund).n,
                   IdOf(call.params.fromType).n)

(* An amount that is supplied but is zero, negative, not a number or not
   finite *)
UnusableAmount(a) ==
  /\ Present(a)
  /\ LET v == parseFloat(a) IN ~IsFinite(v) \/ Le(v, Zero)

(* C3: with source fund, source bucket and target fund supplied, an amount
   that is zero, negative, non-numeric or not finite is rejected with the
   invalid-amount error, for numbers and strings alike. *)
C3_UnusableAmountRejectedAsInvalid ==
  ( /\ call.fn = "validateTransfer"
    /\ Present(call.params.fromFund) /\ Present(call.params.fromType)
    /\ Present(call.params.toFund)
    /\ UnusableAmount(call.params.amount) )
  => (~call.valid /\ call.error = ErrAmount)

----------------------------------------------------------------------------
(* Properties of the calculators *)

Conforms(b) ==
  /\ IsFinite(b.units) /\ IsFinite(b.nav) /\ IsFinite(b.balance)
  /\ b.balance = Mul(b.units, b.nav)

PositiveNav(bs) == \A i \in 1..Len(bs) : Gt(bs[i].nav, Zero)

(* Position in bs of the entry of the pair (f, c) given as request fields,
   0 when there is none *)
At(bs, f, c) ==
  LET at == {i \in 1..Len(bs) :
               bs[i].fundId = IdOf(f) /\ bs[i].contributionTypeId = IdOf(c)}
  IN IF at = {} THEN 0 ELSE Min(at)

(* The sum of balance over all entries, as an exact number *)
RECURSIVE GrandTotal(_)
GrandTotal(bs) ==
  IF bs = <<>> THEN Zero ELSE Add(Head(bs).balance, GrandTotal(Tail(bs)))

(* C5: for a transfer that validateTransfer accepts and whose source and
   target entries have the same NAV, the source balance decreases by exactly
   the amount, the target balance increases by exactly the amount and the
   grand total is unchanged. *)
C5_SameNavConservation ==
  ( /\ call.fn = "calculateTransferPreview"
    /\ validateTransfer(call.params, call.before).valid )
  => LET p == call.params
         amount == parseFloat(p.amount)
         si == At(call.before, p.fromFund, p.fromType)
         ti == At(call.before, p.toFund, p.fromType)
     IN (si # 0 /\ ti # 0 /\ call.before[si].nav = call.before[ti].nav)
        => /\ Len(call.out) = Len(call.before)
           /\ call.out[si].balance = Sub(call.before[si].balance, amount)
           /\ call.out[ti].balance = Add(call.before[ti].balance, amount)
           /\ GrandTotal(call.out) = GrandTotal(call.before)

(* An accepted transfer between two entries that share a NAV other than 1 *)
C5_Witness ==
  /\ call.fn = "calculateTransferPreview"
  /\ validateTransfer(call.params, call.before).valid
  /\ LET si == At(call.before, call.params.fromFund, call.params.fromType)
         ti == At(call.before, call.params.toFund, call.params.fromType)
     IN /\ si # 0 /\ ti # 0
        /\ call.before[si].nav = call.before[ti].nav
        /\ call.before[si].nav = Num(2)
        /\ call.out[ti].balance # call.before[ti].balance

(* C6: calculateTransferPreview changes no entry other than those of
   (fromFund, fromType) and (toFund, fromType): every other entry is the
   input entry at the same position, entries of another bucket are neither
   changed nor created, and at most two entries differ from the input. *)
C6_TransferFrame ==
  call.fn = "calculateTransferPreview" =>
    LET p == call.params
        in == call.before
        out == call.out
        Touched(b) ==
          /\ b.contributionTypeId = IdOf(p.fromType)
          /\ b.fundId \in {IdOf(p.fromFund), IdOf(p.toFund)}
    IN /\ Len(out) \in {Len(in), Len(in) + 1}
       /\ \A i \in 1..Len(in) : ~Touched(in[i]) => out[i] = in[i]
       /\ \A i \in 1..Len(in) :
            in[i].contributionTypeId # IdOf(p.fromType) => out[i] = in[i]
       /\ Len(out) > Len(in) =>
            /\ out[Len(out)].contributionTypeId = IdOf(p.fromType)
            /\ out[Len(out)].fundId = IdOf(p.toFund)
       /\ Cardinality({i \in 1..Len(out) : i > Len(in) \/ out[i] # in[i]}) <= 2

(* A transfer changed its source and its target while an entry of the other
   bucket of the target fund stayed as it was *)
C6_Witness ==
  /\ call.fn = "calculateTransferPreview"
  /\ Cardinality({i \in 1..Len(call.before) : call.out[i] # call.before[i]}) = 2
  /\ \E i \in 1..Len(call.before) :
       /\ call.before[i].fundId = IdOf(call.params.toFund)
       /\ call.before[i].contributionTypeId # IdOf(call.params.fromType)
       /\ call.out[i] = call.before[i]

(* C7: none of the four functions modifies the balance set passed to it:
   after the call the caller's set is what it was before the call. *)
C7_InputNotMutated ==
  call.fn # "none" => balances = call.before

(* A calculator returned a set that differs from its input, and the input
   is as it was *)
C7_Witness ==
  /\ call.fn \in {"calculateTransferPreview", "calculateReallocationPreview"}
  /\ call.out # call.before
  /\ balances = call.before

(* balance === units * nav, as numbers *)
BalanceIdentity(b) ==
  IsFinite(b.balance) /\ StrictEq(b.balance, Mul(b.units, b.nav))

(* C8 as stated: after a call of a calculator on a set in which every entry
   has balance = units * nav and a non-negative NAV, every returned entry
   has balance = units * nav. *)
C8_IdentityForNonNegativeNav ==
  ( /\ call.hasOut
    /\ \A i \in 1..Len(call.before) :
         Conforms(call.before[i]) /\ Le(Zero, call.before[i].nav) )
  => \A i \in 1..Len(call.out) : BalanceIdentity(call.out[i])

(* C8 amended: the same for a set in which every NAV is positive. *)
C8_IdentityForPositiveNav ==
  ( /\ call.hasOut
    /\ \A i \in 1..Len(call.before) : Conforms(call.before[i])
    /\ PositiveNav(call.before) )
  => \A i \in 1..Len(call.out) : BalanceIdentity(call.out[i])

(* A transfer out of a set of positive NAVs created its target entry, at a
   NAV other than 1 *)
C8_Witness ==
  /\ call.fn = "calculateTransferPreview"
  /\ PositiveNav(call.before)
  /\ Len(call.out) = Len(call.before) + 1
  /\ call.out[Len(call.out)].nav = Num(2)
  /\ BalanceIdentity(call.out[Len(call.out)])

(* The percentages of the map a, read as numbers, summed over the funds fs *)
RECURSIVE PercentSum(_, _)
PercentSum(a, fs) ==
  IF fs = <<>> THEN Zero
  ELSE Add(parseFloat(a[Head(fs)]), PercentSum(a, Tail(fs)))

AssignsAll(a, fs) ==
  /\ \A k \in 1..Len(fs) :
       fs[k] \in DOMAIN a /\ IsFinite(parseFloat(a[fs[k]]))
  /\ DOMAIN a = {fs[k] : k \in 1..Len(fs)}

(* C10: when the map assigns a percentage to every fund of the list and the
   percentages sum to 100, the grand total of the returned set equals that
   of the input (stated here for sets of positive NAV only). *)
C10_ReallocationKeepsTotal ==
  ( /\ call.fn = "calculateReallocationPreview"
    /\ PositiveNav(call.before)
    /\ AssignsAll(call.allocations, funds)
    /\ PercentSum(call.allocations, funds) = Num(100) )
  => GrandTotal(call.out) = GrandTotal(call.before)

----------------------------------------------------------------------------
(* Properties of the held balance set *)

(* C4: from a set of non-negative balances and positive NAVs, no sequence of
   transferFunds and reallocateFunds calls, accepted or rejected, leaves an
   entry with a negative balance. *)
C4_NoNegativeBalance ==
  \A i \in 1..Len(balances) :
    IsFinite(balances[i].balance) /\ Le(Zero, balances[i].balance)

(* An accepted transfer took the whole balance of its source entry *)
C4_Witness ==
  /\ call.fn = "transferFunds"
  /\ call.valid
  /\ LET si == At(call.before, call.params.fromFund, call.params.fromType)
     IN /\ Gt(call.before[si].balance, Zero)
        /\ balances[si].balance = Zero

(* C9: from a set with at most one entry per (fundId, contributionTypeId)
   pair, the committed operations keep at most one entry per pair. *)
C9_OneEntryPerPair ==
  \A i, j \in 1..Len(balances) :
    ( /\ balances[i].fundId = balances[j].fundId
      /\ balances[i].contributionTypeId = balances[j].contributionTypeId )
    => i = j

(* Two committed transfers went to the same pair, the first of which created
   its entry *)
C9_Witness ==
  /\ call.fn = "transferFunds"
  /\ call.valid
  /\ Len(call.before) > Len(investmentData)
  /\ Len(balances) = Len(call.before)
  /\ At(call.before, call.params.toFund, call.params.fromType) = Len(call.before)

----------------------------------------------------------------------------
(* Properties of calculateReallocationPreview *)

RECURSIVE Reverse(_)
Reverse(q) == IF q = <<>> THEN <<>> ELSE Append(Reverse(Tail(q)), Head(q))

(* The positions in bs of the entries of fund f *)
FundPositions(bs, f) == {i \in 1..Len(bs) : bs[i].fundId = Num(f)}

(* The sum of balance over the entries of fund f *)
FundSum(bs, f) == GrandTotal(SelectSeq(bs, LAMBDA b : b.fundId = Num(f)))

(* The map a gives fund f a percentage (the empty string is none) *)
HasPercentage(a, f) == f \in DOMAIN a /\ a[f] # Str(<<>>)

(* (grand total of bs) * p / 100 for the percentage p of fund f *)
TargetOf(a, f, bs) == Div(Mul(GrandTotal(bs), parseFloat(a[f])), Num(100))

(* Every fund with a percentage whose entries satisfy Eligible has, in the
   set out, the target amount computed from the set in *)
FundsReachTarget(a, in, out, Eligible(_, _)) ==
  \A k \in 1..Len(funds) :
    (HasPercentage(a, funds[k]) /\ Eligible(in, funds[k]))
    => FundSum(out, funds[k]) = TargetOf(a, funds[k], in)

SomePositiveNav(bs, f) == \E i \in FundPositions(bs, f) : Gt(bs[i].nav, Zero)

AllPositiveNav(bs, f) ==
  /\ FundPositions(bs, f) # {}
  /\ \A i \in FundPositions(bs, f) : Gt(bs[i].nav, Zero)

(* C11 as stated: every fund of the list that has a percentage p and at
   least one entry of positive NAV holds, in the result, (grand total of the
   input) * p / 100, whichever the order of the funds list. *)
C11_FundWithSomePositiveNavReachesTarget ==
  call.fn = "calculateReallocationPreview" =>
    /\ FundsReachTarget(call.allocations, call.before, call.out, SomePositiveNav)
    /\ FundsReachTarget(call.allocations, call.before,
                        calculateReallocationPreview(call.allocations,
                                                     call.before,
                                                     Reverse(funds)).ret,
                        SomePositiveNav)

(* C11 amended: the same for every fund of the list that has a percentage p
   and whose entries, at least one, all have a positive NAV. *)
C11_FundOfPositiveNavReachesTarget ==
  call.fn = "calculateReallocationPreview" =>
    /\ FundsReachTarget(call.allocations, call.before, call.out, AllPositiveNav)
    /\ FundsReachTarget(call.allocations, call.before,
                        calculateReallocationPreview(call.allocations,
                                                     call.before,
                                                     Reverse(funds)).ret,
                        AllPositiveNav)

(* Both funds were given 50% of a total that they did not hold in equal
   parts, the first of them over two entries *)
C11_Witness ==
  /\ call.fn = "calculateReallocationPreview"
  /\ \A k \in 1..Len(funds) :
       /\ HasPercentage(call.allocations, funds[k])
       /\ parseFloat(call.allocations[funds[k]]) = Num(50)
       /\ AllPositiveNav(call.before, funds[k])
       /\ FundSum(call.out, funds[k]) # FundSum(call.before, funds[k])
  /\ Cardinality(FundPositions(call.before, funds[1])) = 2

(* The share of the target amount of its fund that the split gives the
   entry at position i of bs: its part of the fund's total when that total
   is above zero, one over the number of entries otherwise *)
ShareOf(bs, i) ==
  IF Gt(FundSum(bs, bs[i].fundId.n), Zero)
  THEN Div(bs[i].balance, FundSum(bs, bs[i].fundId.n))
  ELSE Div(Num(1), Num(Cardinality(FundPositions(bs, bs[i].fundId.n))))

RECURSIVE SumOfShares(_, _)
SumOfShares(bs, is) ==
  IF is = {} THEN Zero
  ELSE Add(ShareOf(bs, Min(is)), SumOfShares(bs, is \ {Min(is)}))

(* C12: every entry of a reallocated fund receives the fund's target amount
   times its share (its units are that amount over its NAV), the share being
   balance / fund total when the fund's total before the operation is above
   zero and 1 / number of entries otherwise; the shares of one fund sum to
   1. *)
C12_ProportionalSplit ==
  call.fn = "calculateReallocationPreview" =>
    \A i \in 1..Len(call.before) :
      HasPercentage(call.allocations, call.before[i].fundId.n) =>
        /\ call.out[i].units
             = Div(Mul(TargetOf(call.allocations, call.before[i].fundId.n,
                                call.before),
                       ShareOf(call.before, i)),
                   call.before[i].nav)
        /\ SumOfShares(call.before,
                       FundPositions(call.before, call.before[i].fundId.n))
             = Num(1)

(* A fund of two entries holding unequal, positive balances was reallocated
   and its entries kept their order of size *)
C12_Witness ==
  /\ call.fn = "calculateReallocationPreview"
  /\ \E i, j \in 1..Len(call.before) :
       /\ i # j
       /\ call.before[i].fundId = call.before[j].fundId
       /\ HasPercentage(call.allocations, call.before[i].fundId.n)
       /\ Gt(call.before[i].balance, call.before[j].balance)
       /\ Gt(call.before[j].balance, Zero)
       /\ Gt(call.out[i].balance, call.out[j].balance)
       /\ Gt(call.out[j].balance, Zero)
       /\ call.out[i].balance # call.before[i].balance

(* C13: every entry of a fund that the map does not mention, or maps to the
   empty string, is returned as it was given: same units, NAV and balance. *)
C13_UnallocatedFundUntouched ==
  call.fn = "calculateReallocationPreview" =>
    /\ Len(call.out) = Len(call.before)
    /\ \A i \in 1..Len(call.before) :
         ~HasPercentage(call.allocations, call.before[i].fundId.n)
         => call.out[i] = call.before[i]

(* One fund was emptied by a percentage of 0 while the other, mapped to the
   empty string, kept its balance *)
C13_Witness ==
  /\ call.fn = "calculateReallocationPreview"
  /\ \E i, j \in 1..Len(call.before) :
       /\ call.before[i].fundId.n \in DOMAIN call.allocations
       /\ call.allocations[call.before[i].fundId.n] = Str(<<>>)
       /\ Gt(call.before[i].balance, Zero)
       /\ call.out[i] = call.before[i]
       /\ HasPercentage(call.allocations, call.before[j].fundId.n)
       /\ call.out[j] # call.before[j]

----------------------------------------------------------------------------
(* Properties of validateReallocation *)

(* The value is the empty string *)
Empty(v) == v = Str(<<>>)

(* The value is a number, or a string that reads in full as a number, from 0
   to 100 *)
IsPercentage(v) ==
  /\ ~(v.t = "string" /\ TrimLeft(v.s) = <<>>)
  /\ IsFinite(Number(v))
  /\ Le(Zero, Number(v)) /\ Le(Number(v), Num(100))

(* The keys of the map a whose value is neither empty nor a percentage *)
Offending(a) == {k \in DOMAIN a : ~Empty(a[k]) /\ ~IsPercentage(a[k])}

(* The sum of the percentages of the map a over its keys ks, an empty one
   counting as 0 *)
RECURSIVE SumOfPercentages(_, _)
SumOfPercentages(a, ks) ==
  IF ks = {} THEN Zero
  ELSE Add(IF Empty(a[Min(ks)]) THEN Zero ELSE Number(a[Min(ks)]),
           SumOfPercentages(a, ks \ {Min(ks)}))

(* x differs from 100 by at most 0.01 *)
WithinTolerance(x) == Le(Fin(9999, 100), x) /\ Le(x, Fin(10001, 100))

(* C14: a map holding a non-empty percentage that is not a number, or is
   below 0 or above 100, is rejected with the invalid-allocation error naming
   a fund with such a percentage, whatever the sum of the map. *)
C14_OffendingPercentageRejected ==
  ( /\ call.fn = "validateReallocation"
    /\ Offending(call.allocations) # {} )
  => /\ ~call.valid
     /\ \E k \in Offending(call.allocations) : call.error = ErrAllocation(k)

(* C15: for a map whose non-empty percentages are all numbers from 0 to 100,
   validateReallocation answers valid exactly when their sum is within 0.01
   of 100, and otherwise rejects with the total-allocation error reporting
   that sum. *)
C15_ValidIffSumIs100 ==
  ( /\ call.fn = "validateReallocation"
    /\ Offending(call.allocations) = {} )
  => IF WithinTolerance(SumOfPercentages(call.allocations,
                                         DOMAIN call.allocations))
     THEN call.valid /\ call.error.isNull
     ELSE /\ ~call.valid
          /\ call.error = ErrTotal(SumOfPercentages(call.allocations,
                                                    DOMAIN call.allocations))

(* A map whose percentages sum to 99.99 was accepted *)
C15_Witness ==
  /\ call.fn = "validateReallocation"
  /\ Offending(call.allocations) = {}
  /\ call.valid
  /\ SumOfPercentages(call.allocations, DOMAIN call.allocations)
       = Fin(9999, 100)

----------------------------------------------------------------------------
(* Properties of InvestmentProvider *)

(* The answer of the validator that the provider call recorded in c runs *)
ValidationOf(c) ==
  IF c.fn \in {"transferFunds", "previewTransfer"}
  THEN validateTransfer(c.params, c.before)
  ELSE validateReallocation(NumericAllocations(c.allocations))

(* C16: after transferFunds or reallocateFunds on a request that its
   validator rejects, the held set is the set held before the call, the error
   state is the validator's message and the call has returned false (it
   committed nothing: call.hasOut is false); on a request that the validator
   accepts the call has returned true and the error state is null. *)
C16_RejectedCommitLeavesState ==
  call.fn \in {"transferFunds", "reallocateFunds"} =>
    IF ValidationOf(call).valid
    THEN call.hasOut /\ error = NoError
    ELSE /\ ~call.hasOut
         /\ balances = call.before
         /\ ~error.isNull
         /\ error = ValidationOf(call).error

(* A transfer was rejected after an earlier commit had changed the held set:
   the set is as that commit left it and the error is set *)
C16_Witness ==
  /\ call.fn = "transferFunds"
  /\ ~call.hasOut
  /\ ~error.isNull
  /\ balances = call.before
  /\ balances # investmentData

(* C17: a step of previewTransfer or previewReallocation leaves the held set
   and the error state as they were, and its projected set is null exactly
   when the validator rejects the request. *)
C17_PreviewChangesNothing ==
  [][ call'.fn \in {"previewTransfer", "previewReallocation"}
      => /\ balances' = balances
         /\ error' = error
         /\ call'.hasOut <=> ValidationOf(call').valid
         /\ call'.hasOut => call'.out # <<>> ]_vars

(* A valid preview projected a set other than the held one while the error
   of an earlier rejected commit was still set *)
C17_Witness ==
  /\ call.fn = "previewTransfer"
  /\ call.hasOut
  /\ call.out # balances
  /\ balances = call.before
  /\ ~error.isNull

(* C18: the set committed by transferFunds (reallocateFunds) is the projected
   set that previewTransfer (previewReallocation) returns for the same
   request from the same held set, and the commit accepts the request
   exactly when the preview does. *)
C18_CommitEqualsPreview ==
  /\ call.fn = "transferFunds" =>
       /\ call.hasOut <=> PreviewTransferResult(call.params, call.before).valid
       /\ call.hasOut =>
            balances = PreviewTransferResult(call.params, call.before).out
  /\ call.fn = "reallocateFunds" =>
       /\ call.hasOut
            <=> PreviewReallocationResult(call.allocations, call.before,
                                          funds).valid
       /\ call.hasOut =>
            balances = PreviewReallocationResult(call.allocations,
                                                 call.before, funds).out

(* A reallocation leaving one percentage empty was committed and changed the
   held set into what its preview projects *)
C18_Witness ==
  /\ call.fn = "reallocateFunds"
  /\ call.hasOut
  /\ \E k \in DOMAIN call.allocations : call.allocations[k] = Str(<<>>)
  /\ balances # call.before
  /\ balances = PreviewReallocationResult(call.allocations, call.before,
                                          funds).out

----------------------------------------------------------------------------
(* Properties linking validateTransfer and calculateTransferPreview *)

(* C19: whenever validateTransfer accepts a request against a balance set,
   the set holds an entry for (fromFund, fromType) whose balance is at least
   the amount, and the search of calculateTransferPreview for the source
   entry in its copy of the set finds it. *)
C19_AcceptedSourceExists ==
  ( /\ call.fn = "validateTransfer"
    /\ call.valid )
  => /\ At(call.before, call.params.fromFund, call.params.fromType) # 0
     /\ Le(parseFloat(call.params.amount),
           call.before[At(call.before, call.params.fromFund,
                          call.params.fromType)].balance)
     /\ FindIndex(DeepCopy(call.before).val, parseInt(call.params.fromFund),
                  parseInt(call.params.fromType)) # 0

(* A request for less than the balance of the second entry of the set was
   accepted *)
C19_Witness ==
  /\ call.fn = "validateTransfer"
  /\ call.valid
  /\ At(call.before, call.params.fromFund, call.params.fromType) = 2
  /\ Lt(parseFloat(call.params.amount), call.before[2].balance)

(* C20: an accepted transfer to a pair (toFund, fromType) without entry
   appends one entry, last in the set, of that pair, with the NAV of the
   source entry, units amount / that NAV and balance the amount; to a pair
   with an entry it appends nothing, the entry keeps its NAV and its units
   grow by amount / its NAV. *)
C20_TargetCreatedOrCredited ==
  ( /\ call.fn = "calculateTransferPreview"
    /\ validateTransfer(call.params, call.before).valid )
  => LET amount == parseFloat(call.params.amount)
         si == At(call.before, call.params.fromFund, call.params.fromType)
         ti == At(call.before, call.params.toFund, call.params.fromType)
     IN /\ \A i \in 1..Len(call.before) :
             /\ call.out[i].fundId = call.before[i].fundId
             /\ call.out[i].contributionTypeId
                  = call.before[i].contributionTypeId
        /\ IF ti = 0
           THEN /\ Len(call.out) = Len(call.before) + 1
                /\ call.out[Len(call.out)]
                     = [fundId |-> IdOf(call.params.toFund),
                        contributionTypeId |-> IdOf(call.params.fromType),
                        units |-> Div(amount, call.before[si].nav),
                        nav |-> call.before[si].nav,
                        balance |-> amount]
           ELSE /\ Len(call.out) = Len(call.before)
                /\ call.out[ti].nav = call.before[ti].nav
                /\ call.out[ti].units
                     = Add(call.before[ti].units,
                           Div(amount, call.before[ti].nav))

(* An accepted transfer of 1 out of an entry of NAV 2 created its target
   entry with half a unit *)
C20_Witness ==
  /\ call.fn = "calculateTransferPreview"
  /\ validateTransfer(call.params, call.before).valid
  /\ At(call.before, call.params.toFund, call.params.fromType) = 0
  /\ Len(call.out) = Len(call.before) + 1
  /\ call.out[Len(call.out)].nav = Num(2)
  /\ call.out[Len(call.out)].units = Fin(1, 2)
  /\ call.out[Len(call.out)].balance = Num(1)

----------------------------------------------------------------------------
(* Serialisation of the commits *)

(* C21: every committed transferFunds or reallocateFunds is validated and
   computed against the balance set that the preceding operation left, the
   set held when the call is made, so that no committed update is lost: a
   second commit made from the same captured investments.balances as a first
   one does not overwrite the first one's update. *)
C21_CommitOnHeldSet ==
  [][ ( /\ step' = step + 1
        /\ call'.fn \in {"transferFunds", "reallocateFunds"}
        /\ call'.hasOut )
      => call'.before = balances ]_vars

----------------------------------------------------------------------------
(* Properties of the MoveMoneyModal workflow *)

(* C22: the fund selection of the transfer form prevents selecting the same
   fund as source and target: whatever the sequence of From Fund, From
   Bucket and To Fund selections, changes of From Fund after To Fund was
   chosen included, transferData.fromFund and transferData.toFund never hold
   the same non-empty fund id. *)
C22_SourceAndTargetDiffer ==
  ~( /\ ~Falsy(modal.transferData.fromFund)
     /\ modal.transferData.toFund = modal.transferData.fromFund )

(* The ids of the contribution types named 'Loan Fund' *)
LoanTypeIds ==
  {ContributionTypes[i].id :
     i \in {j \in 1..Len(ContributionTypes) :
              ContributionTypes[j].name = "Loan Fund"}}

LoanEntries(bs) ==
  SelectSeq(bs, LAMBDA b : \E c \in LoanTypeIds : b.contributionTypeId = Num(c))

(* C23: no transfer that the modal commits has the 'Loan Fund' contribution
   type as its source bucket, and, a transfer keeping its bucket, none
   changes or creates an entry of the Loan Fund bucket: the Loan Fund
   entries of the held set are the same before and after the commit. *)
C23_NoTransferOutOfLoanFund ==
  [][ ( /\ step' = step + 1
        /\ call'.fn = "transferFunds" )
      => /\ \A c \in LoanTypeIds :
              parseInt(call'.params.fromType) # Num(c)
         /\ LoanEntries(balances') = LoanEntries(balances) ]_vars

(* The modal committed a transfer out of a fund that holds money in the Loan
   Fund bucket: that entry is as before, the held set is not *)
C23_Witness ==
  /\ call.fn = "transferFunds"
  /\ call.hasOut
  /\ ~modal.isOpen
  /\ balances # call.before
  /\ \E i \in 1..Len(call.before) :
       /\ call.before[i].fundId = parseInt(call.params.fromFund)
       /\ \E c \in LoanTypeIds : call.before[i].contributionTypeId = Num(c)
       /\ Gt(call.before[i].balance, Zero)
       /\ balances[i] = call.before[i]

(* C24: the modal issues a commit only from a preview mode: transferFunds
   from 'preview-transfer', reallocateFunds from 'preview-reallocate', with
   previewBalances not null; a preview mode is entered only from its form
   mode, by a step whose validator accepts the form data, left as they are,
   against the held set, left as it is, and that stores the projected set as
   previewBalances; and mode 'select' is left only for a form mode. *)
C24_CommitOnlyAfterPreview ==
  [][ /\ step' = step + 1
         => /\ modal.isOpen
            /\ modal.hasPreview
            /\ \/ /\ call'.fn = "transferFunds"
                  /\ modal.mode = "preview-transfer"
                  /\ call'.params = modal.transferData
               \/ /\ call'.fn = "reallocateFunds"
                  /\ modal.mode = "preview-reallocate"
                  /\ call'.allocations = modal.allocations
      /\ ( /\ modal'.mode = "preview-transfer"
           /\ modal.mode # "preview-transfer" )
         => /\ modal.mode = "transfer"
            /\ validateTransfer(modal.transferData, balances).valid
            /\ modal'.transferData = modal.transferData
            /\ balances' = balances
            /\ modal'.hasPreview
            /\ modal'.previewBalances
                 = calculateTransferPreview(modal.transferData, balances).ret
      /\ ( /\ modal'.mode = "preview-reallocate"
           /\ modal.mode # "preview-reallocate" )
         => /\ modal.mode = "reallocate"
            /\ validateReallocation(modal.allocations).valid
            /\ modal'.allocations = modal.allocations
            /\ balances' = balances
            /\ modal'.hasPreview
            /\ modal'.previewBalances
                 = calculateReallocationPreview(
                     NumericAllocations(modal.allocations), balances,
                     funds).ret
      /\ modal.mode = "select"
         => modal'.mode \in {"select", "transfer", "reallocate"}
      /\ modal.mode \in {"transfer", "reallocate"}
         => modal'.mode # "select" \/ ~modal'.isOpen ]_vars

(* The modal shows the preview of a transfer that its validator accepts and
   that changes the held set *)
C24_Witness ==
  /\ modal.isOpen
  /\ modal.mode = "preview-transfer"
  /\ modal.hasPreview
  /\ validateTransfer(modal.transferData, balances).valid
  /\ modal.previewBalances
       = calculateTransferPreview(modal.transferData, balances).ret
  /\ modal.previewBalances # balances

(* C25: pressing Confirm in a preview mode always succeeds.  Between the
   preview and the confirm neither the form data nor the held set changes,
   so the commit is not rejected, the set it commits is the previewBalances
   shown, and the modal closes. *)
C25_ConfirmCommitsThePreview ==
  [][ /\ ( /\ modal.mode \in {"preview-transfer", "preview-reallocate"}
           /\ modal'.mode = modal.mode )
         => /\ balances' = balances
            /\ modal'.transferData = modal.transferData
            /\ modal'.allocations = modal.allocations
      /\ ( /\ modal.mode \in {"preview-transfer", "preview-reallocate"}
           /\ step' = step + 1 )
         => /\ call'.hasOut
            /\ balances' = modal.previewBalances
            /\ ~modal'.isOpen ]_vars

----------------------------------------------------------------------------
(* Conservation through transferFunds *)

(* The sum of balance over the entries of bucket c *)
BucketSum(bs, c) ==
  GrandTotal(SelectSeq(bs, LAMBDA b : b.contributionTypeId = Num(c)))

(* C26: every call of transferFunds, on a held set of positive NAVs, leaves
   the sum of balance over the entries of each contribution-type bucket, and
   the grand total, as they were before the call, whether source and target
   NAVs are equal or not; hence after any sequence of committed transfers
   these sums have their initial values. *)
C26_TransferKeepsBucketSums ==
  [][ ( /\ call'.fn = "transferFunds"
        /\ PositiveNav(balances) )
      => /\ PositiveNav(balances')
         /\ GrandTotal(balances') = GrandTotal(balances)
         /\ \A c \in TypeIds :
              BucketSum(balances', c) = BucketSum(balances, c) ]_vars

(* The second committing call was a transfer from an entry to an entry of
   another NAV: the source lost money, the target gained money, and the sums
   of the buckets are those of the initial data *)
C26_Witness ==
  /\ call.fn = "transferFunds"
  /\ call.hasOut
  /\ step = 2
  /\ balances # call.before
  /\ LET si == At(call.before, call.params.fromFund, call.params.fromType)
         ti == At(call.before, call.params.toFund, call.params.fromType)
     IN /\ ti # 0
        /\ call.before[si].nav # call.before[ti].nav
        /\ Lt(balances[si].balance, call.before[si].balance)
        /\ Gt(balances[ti].balance, call.before[ti].balance)
  /\ \A c \in TypeIds :
       BucketSum(balances, c) = BucketSum(investmentData, c)

----------------------------------------------------------------------------
(* Empty percentages through the provider *)

(* The test of the calculator's skip branch on one percentage *)
Skipped(v) == v.t = "undefined" \/ v = Str(<<>>)

(* C27: through reallocateFunds and previewReallocation a percentage left
   empty ('') reaches the validator and the calculator as the number 0: no
   percentage of a fund of the submitted map takes the calculator's skip
   branch, and when the map is accepted every entry of a fund whose
   percentage was left empty ends with units 0 and balance 0. *)
C27_EmptyPercentageIsZero ==
  call.fn \in {"reallocateFunds", "previewReallocation"}
  => /\ \A k \in DOMAIN call.allocations :
          /\ ~Skipped(NumericAllocations(call.allocations)[k])
          /\ call.allocations[k] = Str(<<>>)
             => NumericAllocations(call.allocations)[k] = Zero
     /\ call.hasOut
        => \A k \in DOMAIN call.allocations :
             call.allocations[k] = Str(<<>>)
             => \A i \in FundPositions(call.out, k) :
                  /\ call.out[i].units = Zero
                  /\ call.out[i].balance = Zero

(* The map {1: '', 2: '100'} was committed on a set where fund 1 held money
   and fund 2 an entry: the entries of fund 1 hold nothing any more *)
C27_Witness ==
  /\ call.fn = "reallocateFunds"
  /\ call.hasOut
  /\ call.allocations[1] = Str(<<>>)
  /\ call.allocations[2] = Str(<<"1", "0", "0">>)
  /\ FundPositions(call.before, 2) # {}
  /\ \E i \in FundPositions(call.before, 1) :
       /\ Gt(call.before[i].balance, Zero)
       /\ balances[i].fundId = Num(1)
       /\ balances[i].units = Zero
       /\ balances[i].balance = Zero

----------------------------------------------------------------------------
(* The frame of calculateReallocationPreview *)

(* C28: calculateReallocationPreview never adds, removes or reorders entries
   and never changes an entry's fundId, contributionTypeId or nav: the set it
   returns has the length of its input and, at every position, the fundId,
   contributionTypeId and nav of the input; hence a percentage given to a
   fund without balance entry is allocated to nothing: the result holds no
   entry of that fund. *)
C28_ReallocationKeepsEntries ==
  call.fn = "calculateReallocationPreview"
  => /\ Len(call.out) = Len(call.before)
     /\ \A i \in 1..Len(call.before) :
          /\ call.out[i].fundId = call.before[i].fundId
          /\ call.out[i].contributionTypeId
               = call.before[i].contributionTypeId
          /\ call.out[i].nav = call.before[i].nav
     /\ \A f \in DOMAIN call.allocations :
          FundPositions(call.before, f) = {}
          => FundPositions(call.out, f) = {}

(* Fund 2, without entry, was given 50 %: the result has no entry of fund 2
   either, while the entries of fund 1 changed *)
C28_Witness ==
  /\ call.fn = "calculateReallocationPreview"
  /\ 2 \in DOMAIN call.allocations
  /\ call.allocations[2] = Str(<<"5", "0">>)
  /\ FundPositions(call.before, 2) = {}
  /\ FundPositions(call.out, 2) = {}
  /\ Len(call.out) = Len(call.before)
  /\ call.out # call.before

====
